---- MODULE Spec2Model ----
(***************************************************************************)
(* A model of main.py, the Medical AI Service: a FastAPI relay that        *)
(* forwards a medical query to a Gradio client and shapes the answer.      *)
(*                                                                         *)
(* The event loop runs one handler segment at a time; a synchronous call   *)
(* made on the loop (the Client construction in get_gradio_client) blocks  *)
(* it, while client.predict runs in the loop's default thread pool.        *)
(*                                                                         *)
(* Python values: None is the record None, a str is Str(s); a confidence   *)
(* is counted in hundredths (0.95 is 95): every sum the code can form is   *)
(* within one unit in the last place of the double of that many            *)
(* hundredths. processing_time (wall-clock) is not modelled.               *)
(***************************************************************************)
EXTENDS Integers, Sequences, FiniteSets, TLC

\* ------------------------------------------------------------------ bounds
\* Requests the server receives in one run.
NumReqs == 2
\* Threads of the loop's default executor (min(32, cpu_count + 4) in CPython).
MaxWorkers == 2
\* Fragments a generated model text is made of.
MaxFrags == 2

Reqs == 1..NumReqs

\* ------------------------------------------------------------ Python values
None == [type |-> "NoneType"]
Str(s) == [type |-> "str", v |-> s]

\* bool(x) of a str or None: None and "" are falsy.
Truthy(x) == x # None /\ Len(x.v) > 0

\* str.lower(), character by character, on the ASCII letters the texts use.
lower_char(c) ==
  CASE c = "A" -> "a" [] c = "B" -> "b" [] c = "C" -> "c" [] c = "D" -> "d"
    [] c = "E" -> "e" [] c = "F" -> "f" [] c = "G" -> "g" [] c = "H" -> "h"
    [] c = "I" -> "i" [] c = "J" -> "j" [] c = "K" -> "k" [] c = "L" -> "l"
    [] c = "M" -> "m" [] c = "N" -> "n" [] c = "O" -> "o" [] c = "P" -> "p"
    [] c = "Q" -> "q" [] c = "R" -> "r" [] c = "S" -> "s" [] c = "T" -> "t"
    [] c = "U" -> "u" [] c = "V" -> "v" [] c = "W" -> "w" [] c = "X" -> "x"
    [] c = "Y" -> "y" [] c = "Z" -> "z" [] OTHER -> c

RECURSIVE lower(_)
lower(s) ==
  IF Len(s) = 0 THEN ""
  ELSE IF Len(s) = 1 THEN lower_char(s)
  ELSE LET h == Len(s) \div 2
       IN  lower(SubSeq(s, 1, h)) \o lower(SubSeq(s, h + 1, Len(s)))

\* Python's `sub in s` on strings.
str_in(sub, s) ==
  \E i \in 1..(Len(s) - Len(sub) + 1) : SubSeq(s, i, i + Len(sub) - 1) = sub

\* ----------------------------------------------------------- configuration
API_KEY == "your-secure-api-key-here"
HUGGINGFACE_SPACE == "Abdhack/medgemma-4b-it"

\* ------------------------------------------------------------ text heuristics
medical_terms ==
  << "symptom", "diagnosis", "treatment", "medication", "doctor",
     "physician", "medical", "health", "condition", "disease" >>

disclaimer_keywords ==
  << "disclaimer", "consult", "healthcare professional",
     "medical advice", "professional medical", "seek medical" >>

\* sum(1 for term in terms if term in text), over terms[i..]
RECURSIVE count_terms(_, _, _)
count_terms(terms, text, i) ==
  IF i > Len(terms) THEN 0
  ELSE (IF str_in(terms[i], text) THEN 1 ELSE 0) + count_terms(terms, text, i + 1)

Min(a, b) == IF a <= b THEN a ELSE b

\* The score without the cap of line 248.
calculate_confidence_score_nocap(response, query) ==
  LET c0 == 50
      c1 == IF Len(response) > 200 THEN c0 + 20 ELSE c0
      response_lower == lower(response)
      medical_term_count == count_terms(medical_terms, response_lower, 1)
      c2 == c1 + Min(medical_term_count * 5, 30)
      c3 == IF str_in("disclaimer", response_lower) \/ str_in("consult", response_lower)
            THEN c2 + 10 ELSE c2
  IN  c3

\* Lines 220-251, in hundredths.
calculate_confidence_score(response, query) ==
  LET c0 == 50
      c1 == IF Len(response) > 200 THEN c0 + 20 ELSE c0
      response_lower == lower(response)
      medical_term_count == count_terms(medical_terms, response_lower, 1)
      c2 == c1 + Min(medical_term_count * 5, 30)
      c3 == IF str_in("disclaimer", response_lower) \/ str_in("consult", response_lower)
            THEN c2 + 10 ELSE c2
  IN  Min(c3, 95)

\* The keyword search without the lower() of line 255.
contains_medical_disclaimer_cased(text) ==
  \E i \in 1..Len(disclaimer_keywords) : str_in(disclaimer_keywords[i], text)

contains_medical_disclaimer(text) ==
  LET text_lower == lower(text)
  IN  \E i \in 1..Len(disclaimer_keywords) : str_in(disclaimer_keywords[i], text_lower)

\* The suffix of line 264. Its two non-ASCII code points, U+26A0 and U+FE0F,
\* are written "^" and "|" here: one character each, as in the source.
disclaimer ==
  "\n\n^| **Medical Disclaimer**: This information is for educational purposes only and should not replace professional medical advice. Please consult with a healthcare provider for medical concerns."

add_medical_disclaimer(text) == text \o disclaimer

\* ------------------------------------------------------------------ values
HTTPException(status_code, detail) ==
  [type |-> "HTTPException", status_code |-> status_code, detail |-> detail]

\* Any other exception: what Client(...) or client.predict raises.
RemoteError == [type |-> "Exception", detail |-> "connection failed"]

\* A value a call returned, as opposed to an exception it raised.
Returned(v) == [type |-> "return", v |-> v]
Raised(x) == x.type \in {"HTTPException", "Exception"}

\* The Client instance built during request r's call of get_gradio_client.
Client(r) == [type |-> "Client", id |-> r]

HTTPAuthorizationCredentials(token) == [type |-> "credentials", credentials |-> token]

HealthResponse ==
  [status |-> "healthy", service |-> "Medical AI Service", version |-> "1.0.0",
   gradio_space |-> HUGGINGFACE_SPACE]

MedGemmaResponse(response, confidence, source, user_id) ==
  [response |-> response, confidence |-> confidence, source |-> source,
   user_id |-> user_id]

\* What the server answers: an HTTP status and a body.
Http(status, body) == [status |-> status, body |-> body]

\* ------------------------------------------------------------------ inputs
Tokens == {API_KEY, "some-other-key"}
Credentials == {None} \cup {HTTPAuthorizationCredentials(t) : t \in Tokens}
MaxTokenValues == {0, 4096, 4097}
\* Every other request carries a user_id.
UserIdOf(r) == IF r % 2 = 1 THEN Str("user-1") ELSE None
MessageText == "What helps against a cold?"

QueryRequests(r) ==
  [kind : {"query"}, cred : Credentials, max_tokens : MaxTokenValues,
   user_id : {UserIdOf(r)}, text : {MessageText}]

Requests(r) == {[kind |-> "root"], [kind |-> "health"]} \cup QueryRequests(r)

\* Model texts: an optional 200-character neutral prefix, then fragments.
Pad200 ==
  "Drink plenty of water and rest for a few days. Keep a light diet, avoid alcohol and heavy exercise, and sleep at least eight hours every night. Fresh air and short daily walks speed a quick recovery. "

Fragments ==
  { "symptom ", "Doctor, DISEASE ",
    "diagnosis treatment medication physician health condition ",
    "Consult ", "DISCLAIMER ", "Medical Advice ", "Seek Medical ",
    "Healthcare Professional ", "professional medical ", "rest well. " }

RECURSIVE Bodies(_)
Bodies(n) ==
  IF n = 0 THEN {""}
  ELSE Bodies(n - 1) \cup {b \o f : b \in Bodies(n - 1), f \in Fragments}

Texts == {p \o b : p \in {"", Pad200}, b \in Bodies(MaxFrags)}

\* What client.predict may return.
AllResults == {None} \cup {Str(t) : t \in Texts}
\* The results drawn while requests interleave.
FewResults == {None, Str("Please CONSULT a doctor.")}

\* ------------------------------------------------------------------- state
VARIABLES
  require_api_key,  \* os.getenv("REQUIRE_API_KEY").lower() == "true"
  gradio_client,    \* the module global: None or a Client
  cache,            \* lru_cache of get_gradio_client: None (empty) or its value
  pc,               \* where each request is
  req,              \* each request as received (None before it arrives)
  client,           \* the handler's local `client`
  exc,              \* the exception in flight, or the value predict returned
  resp,             \* the answer sent (None before)
  bridge,           \* the Bridge interactions made on behalf of each request
  constructed       \* the Client instances ever built

vars == << require_api_key, gradio_client, cache, pc, req, client, exc, resp,
           bridge, constructed >>

IsQuery(r) == req[r] # None /\ req[r].kind = "query"

\* client.predict called on the loop thread instead of in the executor.
LoopBlockedInline ==
  \E r \in Reqs : pc[r] \in {"constructing", "predicting", "hung"}

\* A synchronous call is running on the event loop thread: only Client(...)
\* does, client.predict being handed to the executor (lines 173-181).
LoopBlocked == \E r \in Reqs : pc[r] = "constructing"

\* Threads of the executor that are inside client.predict.
BusyWorkers == Cardinality({r \in Reqs : pc[r] \in {"predicting", "hung"}})

Init ==
  /\ require_api_key \in BOOLEAN
  /\ gradio_client = None
  /\ cache = None
  /\ pc = [r \in Reqs |-> "idle"]
  /\ req = [r \in Reqs |-> None]
  /\ client = [r \in Reqs |-> None]
  /\ exc = [r \in Reqs |-> None]
  /\ resp = [r \in Reqs |-> None]
  /\ bridge = [r \in Reqs |-> {}]
  /\ constructed = {}

\* ----------------------------------------------------------- pure handlers
\* The key check with REQUIRE_API_KEY ignored.
verify_api_key_noflag(credentials) ==
  IF credentials = None
  THEN Returned(None)
  ELSE IF credentials.credentials # API_KEY
       THEN HTTPException(401, "Invalid API key")
       ELSE Returned(credentials.credentials)

\* The key check that returns a wrong token instead of raising.
verify_api_key_noraise(credentials) ==
  IF credentials = None
  THEN IF require_api_key
       THEN HTTPException(401, "API key required")
       ELSE Returned(None)
  ELSE Returned(credentials.credentials)

\* Lines 96-113: what the call returns, or the HTTPException it raises.
verify_api_key(credentials) ==
  IF credentials = None
  THEN IF require_api_key
       THEN HTTPException(401, "API key required")
       ELSE Returned(None)
  ELSE IF credentials.credentials # API_KEY
       THEN HTTPException(401, "Invalid API key")
       ELSE Returned(credentials.credentials)

\* The validation without le=4096.
ValidRequest_noupper(request) == request.max_tokens >= 1

\* Field(ge=1, le=4096) of MedGemmaRequest.max_tokens.
ValidRequest(request) == request.max_tokens >= 1 /\ request.max_tokens <= 4096

\* The returned dict: it has no status code.
http_exception_handler(e) ==
  [response |-> "Service error: " \o e.detail, confidence |-> 0,
   source |-> "service-error", processing_time |-> 0]

\* The handler returns a plain dict, not a Response, so the status_code of the
\* HTTPException is lost: the dict is sent as it is (200) or, where the server
\* cannot send a dict, the request ends in a server error (500).
EnvelopeStatus == {200, 500}

\* Lines 186-204: the response built from what predict returned.
query_success(request, result) ==
  LET response_text == IF Truthy(result) THEN result.v ELSE "No response generated"
      confidence == calculate_confidence_score(response_text, request.text)
      final_text == IF ~contains_medical_disclaimer(response_text)
                    THEN add_medical_disclaimer(response_text)
                    ELSE response_text
  IN  MedGemmaResponse(final_text, confidence, "medgemma-4b-it-gradio", request.user_id)

\* The exception left uncaught: it ends in the server's error answer.
query_fallback_propagate(request, e) ==
  Http(500, [response |-> "An unexpected error occurred. Please try again later.",
             confidence |-> 0, source |-> "unexpected-error", processing_time |-> 0])

\* Lines 206-218: `except Exception` answers 200 with the graceful error
\* response; str(e) is e.detail here.
query_fallback(request, e) ==
  Http(200, MedGemmaResponse(
    "I apologize, but I encountered an error processing your medical query: "
      \o e.detail
      \o ". Please try again later or consult with a healthcare professional for immediate assistance.",
    0, "error-fallback", request.user_id))

\* A get_gradio_client without cache and without the `is None` test.
NeedsConstruction_always == TRUE

\* get_gradio_client runs Client(...) only when nothing is cached and the
\* global is still None.
NeedsConstruction == cache = None /\ gradio_client = None

\* ----------------------------------------------------------------- actions
\* A request reaches the server; requests are numbered in order of arrival.
Arrive(r, request) ==
  /\ pc[r] = "idle"
  /\ r > 1 => pc[r - 1] # "idle"
  /\ req' = [req EXCEPT ![r] = request]
  /\ pc' = [pc EXCEPT ![r] = "recv"]
  /\ UNCHANGED << require_api_key, gradio_client, cache, client, exc, resp,
                  bridge, constructed >>

\* GET /
root(r) ==
  /\ pc[r] = "recv" /\ req[r].kind = "root"
  /\ ~LoopBlocked
  /\ resp' = [resp EXCEPT ![r] = Http(200, HealthResponse)]
  /\ pc' = [pc EXCEPT ![r] = "done"]
  /\ UNCHANGED << require_api_key, gradio_client, cache, req, client, exc,
                  bridge, constructed >>

\* The handler goes on with the handle in the same turn of the loop:
\* health_check answers (lines 132-137), query_medgemma queues client.predict
\* in the executor and awaits it (lines 163-181).
WithClient(r) ==
  IF req[r].kind = "health"
  THEN /\ resp' = [resp EXCEPT ![r] = Http(200, HealthResponse)]
       /\ pc' = [pc EXCEPT ![r] = "done"]
  ELSE /\ pc' = [pc EXCEPT ![r] = "queued"]
       /\ UNCHANGED resp

\* get_gradio_client() called for request r: it returns the cached instance,
\* or enters Client(...), which blocks the loop until it returns or raises.
CallGetClient(r) ==
  /\ bridge' = [bridge EXCEPT ![r] = @ \cup {"getHandle"}]
  /\ IF NeedsConstruction
     THEN /\ pc' = [pc EXCEPT ![r] = "constructing"]
          /\ UNCHANGED << cache, client, resp >>
     ELSE /\ cache' = (IF cache # None THEN cache ELSE gradio_client)
          /\ client' = [client EXCEPT ![r] = cache']
          /\ WithClient(r)
  /\ UNCHANGED << require_api_key, gradio_client, req, exc, constructed >>

\* GET /health, lines 128-137.
health_check(r) ==
  /\ pc[r] = "recv" /\ req[r].kind = "health"
  /\ ~LoopBlocked
  /\ CallGetClient(r)

\* Client(...) returns: the global is assigned, the call returns it and
\* lru_cache keeps it.
ClientConstructed(r) ==
  /\ pc[r] = "constructing"
  /\ gradio_client' = Client(r)
  /\ cache' = Client(r)
  /\ client' = [client EXCEPT ![r] = Client(r)]
  /\ constructed' = constructed \cup {Client(r)}
  /\ bridge' = [bridge EXCEPT ![r] = @ \cup {"construct"}]
  /\ WithClient(r)
  /\ UNCHANGED << require_api_key, req, exc >>

\* Client(...) raises: get_gradio_client raises HTTPException(503) and assigns
\* nothing. health_check re-raises it as a 503; query_medgemma catches it.
ClientFails(r) ==
  /\ pc[r] = "constructing"
  /\ bridge' = [bridge EXCEPT ![r] = @ \cup {"construct"}]
  /\ LET e == HTTPException(503, "Failed to connect to AI service: " \o RemoteError.detail)
     IN  IF req[r].kind = "health"
         THEN /\ exc' = [exc EXCEPT ![r] = HTTPException(503, "Service unhealthy: " \o e.detail)]
              /\ pc' = [pc EXCEPT ![r] = "http_exc"]
              /\ UNCHANGED resp
         ELSE /\ exc' = [exc EXCEPT ![r] = e]
              /\ resp' = [resp EXCEPT ![r] = query_fallback(req[r], e)]
              /\ pc' = [pc EXCEPT ![r] = "done"]
  /\ UNCHANGED << require_api_key, gradio_client, cache, req, client, constructed >>

\* POST /query-medgemma: the dependency verify_api_key is resolved first.
Depends(r) ==
  /\ pc[r] = "recv" /\ req[r].kind = "query"
  /\ ~LoopBlocked
  /\ LET out == verify_api_key(req[r].cred)
     IN  IF Raised(out)
         THEN /\ exc' = [exc EXCEPT ![r] = out]
              /\ pc' = [pc EXCEPT ![r] = "http_exc"]
         ELSE /\ pc' = [pc EXCEPT ![r] = "authorized"]
              /\ UNCHANGED exc
  /\ UNCHANGED << require_api_key, gradio_client, cache, req, client, resp,
                  bridge, constructed >>

\* The body is validated against MedGemmaRequest: a body that fails is
\* answered 422 and query_medgemma is not called.
Validate(r) ==
  /\ pc[r] = "authorized"
  /\ ~LoopBlocked
  /\ IF ValidRequest(req[r])
     THEN /\ pc' = [pc EXCEPT ![r] = "handler"]
          /\ UNCHANGED resp
     ELSE /\ resp' = [resp EXCEPT ![r] = Http(422, [detail |-> "validation error"])]
          /\ pc' = [pc EXCEPT ![r] = "done"]
  /\ UNCHANGED << require_api_key, gradio_client, cache, req, client, exc,
                  bridge, constructed >>

\* query_medgemma, lines 153-181.
query_medgemma(r) ==
  /\ pc[r] = "handler"
  /\ ~LoopBlocked
  /\ CallGetClient(r)

\* A free thread of the executor takes the call; the remote endpoint will
\* answer it or never will (no timeout is set).
WorkerStart(r, hangs) ==
  /\ pc[r] = "queued"
  /\ BusyWorkers < MaxWorkers
  /\ pc' = [pc EXCEPT ![r] = IF hangs THEN "hung" ELSE "predicting"]
  /\ bridge' = [bridge EXCEPT ![r] = @ \cup {"predict"}]
  /\ UNCHANGED << require_api_key, gradio_client, cache, req, client, exc,
                  resp, constructed >>

WorkerReturns(r, result) ==
  /\ pc[r] = "predicting"
  /\ exc' = [exc EXCEPT ![r] = Returned(result)]
  /\ pc' = [pc EXCEPT ![r] = "returned"]
  /\ UNCHANGED << require_api_key, gradio_client, cache, req, client, resp,
                  bridge, constructed >>

WorkerRaises(r) ==
  /\ pc[r] = "predicting"
  /\ exc' = [exc EXCEPT ![r] = RemoteError]
  /\ pc' = [pc EXCEPT ![r] = "raised"]
  /\ UNCHANGED << require_api_key, gradio_client, cache, req, client, resp,
                  bridge, constructed >>

\* query_medgemma, lines 183-204.
ResumeSuccess(r) ==
  /\ pc[r] = "returned"
  /\ ~LoopBlocked
  /\ resp' = [resp EXCEPT ![r] = Http(200, query_success(req[r], exc[r].v))]
  /\ pc' = [pc EXCEPT ![r] = "done"]
  /\ UNCHANGED << require_api_key, gradio_client, cache, req, client, exc,
                  bridge, constructed >>

\* query_medgemma, lines 206-218.
ResumeFailure(r) ==
  /\ pc[r] = "raised"
  /\ ~LoopBlocked
  /\ resp' = [resp EXCEPT ![r] = query_fallback(req[r], exc[r])]
  /\ pc' = [pc EXCEPT ![r] = "done"]
  /\ UNCHANGED << require_api_key, gradio_client, cache, req, client, exc,
                  bridge, constructed >>

\* The handler registered for HTTPException answers in place of FastAPI's.
HandleHTTPException(r) ==
  /\ pc[r] = "http_exc"
  /\ ~LoopBlocked
  /\ \E s \in EnvelopeStatus :
       resp' = [resp EXCEPT ![r] = Http(s, http_exception_handler(exc[r]))]
  /\ pc' = [pc EXCEPT ![r] = "done"]
  /\ UNCHANGED << require_api_key, gradio_client, cache, req, client, exc,
                  bridge, constructed >>

\* One step of the server, the arriving requests drawn from In(r).
NextOver(In(_)) ==
  \E r \in Reqs :
    \/ \E request \in In(r) : Arrive(r, request)
    \/ root(r)
    \/ health_check(r)
    \/ ClientConstructed(r)
    \/ ClientFails(r)
    \/ Depends(r)
    \/ Validate(r)
    \/ query_medgemma(r)
    \/ \E hangs \in BOOLEAN : WorkerStart(r, hangs)
    \/ \E result \in FewResults : WorkerReturns(r, result)
    \/ WorkerRaises(r)
    \/ ResumeSuccess(r)
    \/ ResumeFailure(r)
    \/ HandleHTTPException(r)

Next == NextOver(Requests)

Spec == Init /\ [][Next]_vars

\* ------------------------------------------------------- the success path
\* A query whose predict call is running: request 1 built the client, passed
\* the key check and the validation. Every model text is then drawn.
TextInit ==
  /\ require_api_key = FALSE
  /\ gradio_client = Client(1)
  /\ cache = Client(1)
  /\ pc = [r \in Reqs |-> IF r = 1 THEN "predicting" ELSE "idle"]
  /\ req = [r \in Reqs |->
              IF r = 1
              THEN [kind |-> "query", cred |-> HTTPAuthorizationCredentials(API_KEY),
                    max_tokens |-> 4096, user_id |-> UserIdOf(1), text |-> MessageText]
              ELSE None]
  /\ client = [r \in Reqs |-> IF r = 1 THEN Client(1) ELSE None]
  /\ exc = [r \in Reqs |-> None]
  /\ resp = [r \in Reqs |-> None]
  /\ bridge = [r \in Reqs |-> IF r = 1 THEN {"getHandle", "construct", "predict"} ELSE {}]
  /\ constructed = {Client(1)}

TextNext ==
  \/ \E result \in AllResults : WorkerReturns(1, result)
  \/ ResumeSuccess(1)

TextSpec == TextInit /\ [][TextNext]_vars

\* ---------------------------------------------------------------- fairness
\* What the loop and the executor do for request r once it has arrived, the
\* resumption after a returned predict call apart.
Step(r) ==
  \/ root(r)
  \/ health_check(r)
  \/ ClientConstructed(r)
  \/ ClientFails(r)
  \/ Depends(r)
  \/ Validate(r)
  \/ query_medgemma(r)
  \/ \E hangs \in BOOLEAN : WorkerStart(r, hangs)
  \/ \E result \in FewResults : WorkerReturns(r, result)
  \/ WorkerRaises(r)
  \/ ResumeFailure(r)
  \/ HandleHTTPException(r)

\* The requests of the runs checked for progress: GET /, GET /health, and a
\* query that is good, or has a wrong key, or has max_tokens out of range.
LiveRequests(r) ==
  {[kind |-> "root"], [kind |-> "health"]}
    \cup {q \in QueryRequests(r) :
            \/ q.cred = HTTPAuthorizationCredentials(API_KEY) /\ q.max_tokens \in {0, 4096}
            \/ q.cred = HTTPAuthorizationCredentials("some-other-key") /\ q.max_tokens = 4096}

LiveNext == NextOver(LiveRequests)

\* Weak fairness of ResumeSuccess(r), with ENABLED written out: the step is
\* possible exactly when predict has returned and the loop is free.
ResumeFair(r) ==
  \/ []<>(~(pc[r] = "returned" /\ ~LoopBlocked))
  \/ []<><<ResumeSuccess(r)>>_vars

\* The loop runs every ready coroutine, the executor every queued call when a
\* thread is free, Client(...) returns or raises, and a predict call that is
\* not hung comes back.
LiveSpec ==
  Init /\ [][LiveNext]_vars /\ \A r \in Reqs : (WF_vars(Step(r)) /\ ResumeFair(r))

\* ------------------------------------------------------------- properties
Done(r) == pc[r] = "done"

\* Request r went down the success path: predict returned and the response
\* of lines 198-204 was sent.
Succeeded(r) == Done(r) /\ exc[r] # None /\ exc[r].type = "return"

\* The text the heuristics see (line 187).
ScoredText(r) == IF Truthy(exc[r].v) THEN exc[r].v.v ELSE "No response generated"

\* Text t holds keyword k somewhere, whatever the case of its letters.
HasIgnoringCase(t, k) ==
  \E i \in 1..(Len(t) - Len(k) + 1) : lower(SubSeq(t, i, i + Len(k) - 1)) = k

SixKeywords ==
  { "disclaimer", "consult", "healthcare professional", "medical advice",
    "professional medical", "seek medical" }

TenTerms ==
  { "symptom", "diagnosis", "treatment", "medication", "doctor", "physician",
    "medical", "health", "condition", "disease" }

\* The response text the claim C4 expects for the text t.
Disclaimed(t) ==
  IF \E k \in SixKeywords : HasIgnoringCase(t, k) THEN t ELSE t \o disclaimer

\* C4 as stated: on the success path, for every text t the model returns, the
\* response text is t itself when t holds one of the six disclaimer keywords
\* in any case, and t followed by the fixed disclaimer suffix otherwise.
C4_EveryModelText ==
  \A r \in Reqs :
    (Succeeded(r) /\ exc[r].v # None)
      => resp[r].body.response = Disclaimed(exc[r].v.v)

\* C4 as amended: the same for every non-empty text t; an empty or missing
\* result is replaced by "No response generated", which then gets the suffix.
C4_NonEmptyModelText ==
  \A r \in Reqs :
    Succeeded(r)
      => /\ resp[r].status = 200
         /\ resp[r].body.response =
              IF exc[r].v # None /\ exc[r].v.v # ""
              THEN Disclaimed(exc[r].v.v)
              ELSE "No response generated" \o disclaimer

\* A text whose only keyword is in capitals went through unmodified.
C4_Witness ==
  /\ Succeeded(1)
  /\ exc[1].v = Str("rest well. DISCLAIMER ")
  /\ resp[1].body.response = "rest well. DISCLAIMER "

\* The number of distinct terms of the 10-term list in the lower-cased text.
DistinctTerms(t) == Cardinality({k \in TenTerms : str_in(k, lower(t))})

\* C5: the confidence (in hundredths) of every scored text is
\* min(50 + [20 if longer than 200] + min(5k, 30) + [10 if "disclaimer" or
\* "consult" occurs in the lower-cased text], 95); it lies in 0..95; and a
\* text longer than 200 characters with at least 6 distinct medical terms and
\* a "consult" mention scores exactly 95.
C5_ConfidenceFormula ==
  \A r \in Reqs :
    Succeeded(r) =>
      LET t == ScoredText(r)
          k == DistinctTerms(t)
          c == resp[r].body.confidence
          sum == 50 + (IF Len(t) > 200 THEN 20 ELSE 0)
                    + (IF 5 * k < 30 THEN 5 * k ELSE 30)
                    + (IF HasIgnoringCase(t, "disclaimer") \/ HasIgnoringCase(t, "consult")
                       THEN 10 ELSE 0)
      IN  /\ c = (IF sum < 95 THEN sum ELSE 95)
          /\ c >= 0 /\ c <= 95
          /\ (Len(t) > 200 /\ k >= 6 /\ HasIgnoringCase(t, "consult")) => c = 95

\* A long text with six medical terms and a consult mention was scored.
C5_Witness ==
  /\ Succeeded(1)
  /\ Len(ScoredText(1)) > 200
  /\ DistinctTerms(ScoredText(1)) >= 6
  /\ HasIgnoringCase(ScoredText(1), "consult")
  /\ resp[1].body.confidence = 95

\* The key check as the claims state it: no token although one is required,
\* or a token that is not the configured key.
Unauthorized(credentials) ==
  \/ credentials = None /\ require_api_key
  \/ credentials # None /\ credentials.credentials # API_KEY

InRange(request) == request.max_tokens \in 1..4096

\* An exception was raised for request r and is recorded in exc[r].
Threw(r) == exc[r] # None /\ exc[r].type \in {"HTTPException", "Exception"}

\* C1: a query that passes the key check and the validation and for which
\* getting the handle or the predict call raises ends with HTTP 200, confidence
\* 0, source "error-fallback" and the request's user_id; no such query ends
\* with a 5xx, and no exception leaves the handler.
C1_FallbackOnException ==
  \A r \in Reqs :
    (IsQuery(r) /\ ~Unauthorized(req[r].cred) /\ InRange(req[r]))
      => /\ pc[r] # "http_exc"
         /\ Done(r) => resp[r].status = 200
         /\ (Done(r) /\ Threw(r))
              => /\ resp[r].body.confidence = 0
                 /\ resp[r].body.source = "error-fallback"
                 /\ resp[r].body.user_id = req[r].user_id

\* One query fell back after Client(...) raised, another after predict raised.
C1_Witness ==
  \E r1, r2 \in Reqs :
    /\ IsQuery(r1) /\ Done(r1) /\ Threw(r1) /\ exc[r1].type = "HTTPException"
    /\ exc[r1].status_code = 503 /\ resp[r1].body.source = "error-fallback"
    /\ IsQuery(r2) /\ Done(r2) /\ exc[r2] = RemoteError
    /\ resp[r2].body.source = "error-fallback" /\ resp[r2].status = 200

\* C2 as stated: a query with a bearer token other than the configured key is
\* answered 401, whatever its body.
C2_WrongTokenIs401 ==
  \A r \in Reqs :
    (IsQuery(r) /\ Done(r) /\ req[r].cred # None /\ req[r].cred.credentials # API_KEY)
      => resp[r].status = 401

\* C3: verify_api_key raises unauthorized exactly when no token comes although
\* one is required, or the token is not the configured key; a query without
\* Authorization header, with the flag unset, is never answered 401 and, its
\* body being valid, enters the query logic.
C3_AuthContract ==
  /\ \A c \in Credentials :
       LET out == verify_api_key(c)
       IN  /\ Raised(out) <=> Unauthorized(c)
           /\ Raised(out) => out.status_code = 401
  /\ \A r \in Reqs :
       (IsQuery(r) /\ pc[r] # "recv")
         => (Unauthorized(req[r].cred)
               <=> (Threw(r) /\ exc[r].type = "HTTPException" /\ exc[r].status_code = 401))
  /\ \A r \in Reqs :
       (IsQuery(r) /\ req[r].cred = None /\ ~require_api_key)
         => /\ pc[r] # "http_exc"
            /\ Done(r) => resp[r].status # 401
            /\ (Done(r) /\ InRange(req[r])) => "getHandle" \in bridge[r]

\* A query without a token, the flag unset, has been handled by the query logic.
C3_Witness ==
  \E r \in Reqs :
    /\ IsQuery(r) /\ req[r].cred = None /\ ~require_api_key
    /\ Done(r) /\ "predict" \in bridge[r]

\* C6: a query whose max_tokens is outside 1..4096 never gets a Bridge handle
\* looked up or built and never has predict called; if it passed the key check
\* it is answered 422.
C6_OutOfRangeNeverRemote ==
  \A r \in Reqs :
    (IsQuery(r) /\ ~InRange(req[r]))
      => /\ bridge[r] = {}
         /\ client[r] = None
         /\ pc[r] \in {"recv", "authorized", "http_exc", "done"}
         /\ (Done(r) /\ ~Unauthorized(req[r].cred)) => resp[r].status = 422

\* A query with max_tokens 4097 and a good key was rejected, the Bridge untouched.
C6_Witness ==
  \E r \in Reqs :
    /\ IsQuery(r) /\ req[r].max_tokens = 4097 /\ ~Unauthorized(req[r].cred)
    /\ Done(r) /\ resp[r].status = 422 /\ bridge[r] = {} /\ gradio_client = None

\* C7 as stated: GET /health is answered 200 with the health payload when the
\* handle is obtained and 503 when obtaining it throws; GET / is answered 200
\* with the health payload and never touches the Bridge.
C7_HealthStatus ==
  \A r \in Reqs :
    (req[r] # None /\ Done(r))
      => /\ (req[r].kind = "health" /\ client[r] # None)
              => resp[r] = Http(200, HealthResponse)
         /\ (req[r].kind = "health" /\ client[r] = None) => resp[r].status = 503
         /\ req[r].kind = "root"
              => resp[r] = Http(200, HealthResponse) /\ bridge[r] = {}

\* C8: a query that fails the key check makes no Bridge interaction: no handle
\* lookup, no construction, no predict call.
C8_AuthFailureBeforeBridge ==
  \A r \in Reqs :
    (IsQuery(r) /\ Unauthorized(req[r].cred))
      => /\ bridge[r] = {}
         /\ client[r] = None
         /\ pc[r] \in {"recv", "http_exc", "done"}

\* A query with a wrong token and a valid body is done, the Bridge untouched.
C8_Witness ==
  \E r \in Reqs :
    /\ IsQuery(r) /\ req[r].cred = HTTPAuthorizationCredentials("some-other-key")
    /\ InRange(req[r]) /\ Done(r) /\ bridge[r] = {}
    /\ Threw(r) /\ exc[r].status_code = 401

\* C9: once assigned, the handle never changes; at most one Client is ever
\* built; every call that returns hands out the assigned instance; a failed
\* construction leaves the global and the cache unassigned; and a call made
\* while the global is unassigned attempts the construction (again).
C9_Singleton ==
  [][ /\ gradio_client # None => gradio_client' = gradio_client
      /\ Cardinality(constructed') <= 1
      /\ \A r \in Reqs : client'[r] # None => client'[r] = gradio_client'
      /\ \A r \in Reqs :
           (pc[r] = "constructing" /\ pc'[r] # "constructing" /\ client'[r] = None)
             => gradio_client' = None /\ cache' = None
      /\ \A r \in Reqs :
           ("getHandle" \notin bridge[r] /\ "getHandle" \in bridge'[r])
             => IF gradio_client = None
                THEN pc'[r] = "constructing"
                ELSE client'[r] = gradio_client /\ constructed' = constructed
    ]_vars

\* A construction failed for one request, a later call built the handle and a
\* third use got the very same instance.
C9_Witness ==
  \E r1, r2 \in Reqs :
    /\ "construct" \in bridge[r1] /\ client[r1] = None /\ pc[r1] # "constructing"
    /\ r2 > r1 /\ gradio_client = Client(r2) /\ client[r2] = Client(r2)

\* C10: every request that has arrived is eventually answered, unless its own
\* predict call hangs or it waits for a thread while hung calls hold them all:
\* a hung predict call stops no other request.
HungWorkers == Cardinality({r \in Reqs : pc[r] = "hung"})

C10_OthersProgress ==
  \A r \in Reqs :
    [](pc[r] = "recv"
         => <>(\/ pc[r] = "done"
               \/ pc[r] = "hung"
               \/ pc[r] = "queued" /\ HungWorkers = MaxWorkers))

\* While the predict call of one query hangs, a later query has been answered
\* down the success path.
C10_Witness ==
  \E r1, r2 \in Reqs :
    /\ r1 < r2 /\ pc[r1] = "hung"
    /\ IsQuery(r2) /\ Succeeded(r2) /\ resp[r2].status = 200

====
